---- MODULE Spec2Model ----
(***************************************************************************)
(* PyAbsorp: the model evaluators (delany_bazley, rayleigh, shear_wave,    *)
(* biot_allard, johnson_champoux), the absorption transform and the        *)
(* Material object that holds one result.                                  *)
(*                                                                         *)
(* Values.  Python's None is the empty tuple and a present attribute value *)
(* v is the one-element tuple <<v>>.  A frequency sweep is a record        *)
(* [ndarray, vals]: ndarray says whether the operand is a numpy array (the *)
(* documented type) or a plain Python number (then vals has one element).  *)
(* The angular frequency omega = 2*pi*freq is kept in units of 2*pi, so it *)
(* is zero exactly where the frequency is.  The complex results are not    *)
(* computed: a result is a term naming the formula that produced it, the   *)
(* arguments it was produced from and, per sweep element, whether the      *)
(* element came out of ordinary arithmetic ("num"), out of a division by   *)
(* zero ("div0") or out of a fractional power of a negative real ("nan"):  *)
(* numpy warns and propagates inf/nan in both cases, it does not raise.    *)
(* Shape factors are in hundredths (1.07 is 107), porosity is in halves    *)
(* and air density in tenths.                                              *)
(***************************************************************************)
EXTENDS Integers, Sequences, FiniteSets, TLC

VARIABLES
    fn,     \* a direct call of a module-level function: its name and arguments
    ret,    \* the outcome of that call, once made
    mat,    \* the Material object's attributes
    th,     \* per caller: the position and locals of its estimate_absorption call
    disk,   \* the files written by the pickle utilities: name -> contents
    io,     \* the last pickle utility call, its outcome, the modes it opened
            \* its file with, and what was saved
    ap      \* the AirProperties object, and the last operation on it

vars == <<fn, ret, mat, th, disk, io, ap>>

----------------------------------------------------------------------------
(* Bounds *)

\* longest frequency sweep
MaxLen == 2
\* at most this many numeric arguments of a direct call are zero
MaxZeroed == 2
\* at most this many attributes of the constructed Material are left None
MaxUnset == 1
\* largest real or imaginary part of an impedance or tangent given as a number
MaxPart == 2

----------------------------------------------------------------------------
(* Python values and outcomes *)

None == <<>>
Some(v) == <<v>>

Return(v) == [kind |-> "return", exc |-> "", val |-> v]
Raise(e) == [kind |-> "raise", exc |-> e, val |-> None]
\* the frequencies (Hz) a sweep is built from; no evaluator restricts them
FreqVals == {-100, 0, 100}

Sweeps ==
    {[ndarray |-> TRUE, vals |-> s] :
        s \in UNION {[1..n -> FreqVals] : n \in 1..MaxLen}}
    \cup {[ndarray |-> FALSE, vals |-> <<f>>] : f \in FreqVals}

\* a zero divisor anywhere in the sweep marks every element
ElemsOf_reduced(x, dens) ==
    [i \in 1..Len(x.vals) |->
        IF \E j \in 1..Len(x.vals) : 0 \in dens[j] THEN "div0" ELSE "num"]

\* One elementwise formula over the sweep x whose divisors at element v are
\* Dens(v).  With an ndarray operand a zero divisor gives inf/nan in that
\* element; with plain Python numbers it raises ZeroDivisionError.
ElemsOf(x, dens) ==
    [i \in 1..Len(x.vals) |-> IF 0 \in dens[i] THEN "div0" ELSE "num"]

DivRaises(x, dens) == ~x.ndarray /\ 0 \in dens[1]

\* b ** 0.5, b ** -0.75 and the like over the elements already computed: on
\* a real ndarray a negative base b gives nan in that element (numpy warns);
\* a plain Python float gives a complex number
PowElems(x, bases, elems) ==
    [i \in DOMAIN elems |->
        IF elems[i] = "num" /\ x.ndarray /\ (\E b \in bases[i] : b < 0)
        THEN "nan" ELSE elems[i]]

----------------------------------------------------------------------------
(* pyabsorp/models/delany_bazley.py *)

DBVariants == {"allard-champoux", "default", "miki"}

\* the three private formulas: x ** -0.75 etc. divide by x
DBDens(var, flow_resis, air_dens, sound_spd, f) ==
    IF var = "allard-champoux"
    THEN {flow_resis, air_dens * f, sound_spd}
    ELSE {flow_resis, 1000 * f, sound_spd}

\* the sign of the real base of the fractional powers: air_dens*freq /
\* flow_resis or 1e3*freq / flow_resis
sign(x) == IF x > 0 THEN 1 ELSE IF x < 0 THEN -1 ELSE 0

DBBases(var, flow_resis, air_dens, f) ==
    IF var = "allard-champoux"
    THEN {sign(air_dens) * sign(f) * sign(flow_resis)}
    ELSE {sign(f) * sign(flow_resis)}

\* 1e3 * freq / flow_resis without the factor 1e3
DBX_unscaled(var, flow_resis, air_dens, f) ==
    IF var = "allard-champoux"
    THEN <<air_dens * f, 10 * flow_resis>>
    ELSE <<f, flow_resis>>

\* the independent variable of the formulas as <<numerator, denominator>>:
\* air_dens*freq / flow_resis (air density is in tenths of kg/m^3) or
\* 1e3*freq / flow_resis
DBX(var, flow_resis, air_dens, f) ==
    IF var = "allard-champoux"
    THEN <<air_dens * f, 10 * flow_resis>>
    ELSE <<1000 * f, flow_resis>>

\* R = 1 + c * x ** e, with c in ten-thousandths and e in thousandths:
\* 1 ** e is 1, any other power is left as a term
DBResistance(var, x) ==
    LET c == CASE var = "allard-champoux" -> 571
               [] var = "default" -> 90800
               [] var = "miki" -> 55000
        e == CASE var = "allard-champoux" -> -754
               [] var = "default" -> -750
               [] var = "miki" -> -632
    IN  IF x[1] = x[2] /\ x[2] # 0
        THEN [what |-> "real", num |-> 10000 + c, den |-> 10000]
        ELSE [what |-> "power", one |-> 1, coef |-> c, base |-> x, exp |-> e]

DBFormula(var, flow_resis, air_dens, sound_spd, freq) ==
    LET Dens(f) == DBDens(var, flow_resis, air_dens, sound_spd, f)
        T(q) == [qty |-> q, model |-> "DB", var |-> var,
                 args |-> <<flow_resis, air_dens, sound_spd>>,
                 R |-> [i \in DOMAIN freq.vals |->
                          DBResistance(var, DBX(var, flow_resis, air_dens,
                                                freq.vals[i]))],
                 ndarray |-> freq.ndarray,
                 elems |-> PowElems(freq,
                              [i \in DOMAIN freq.vals |->
                                  DBBases(var, flow_resis, air_dens, freq.vals[i])],
                              ElemsOf(freq, [i \in DOMAIN freq.vals |-> Dens(freq.vals[i])]))]
    IN  IF DivRaises(freq, [i \in DOMAIN freq.vals |-> Dens(freq.vals[i])]) THEN Raise("ZeroDivisionError")
        ELSE Return(<<T("zc"), T("kc")>>)

delany_bazley_fallback(flow_resis, air_dens, sound_spd, freq, var) ==
    IF var = "allard-champoux"
    THEN DBFormula("allard-champoux", flow_resis, air_dens, sound_spd, freq)
    ELSE IF var = "miki"
    THEN DBFormula("miki", flow_resis, air_dens, sound_spd, freq)
    ELSE DBFormula("default", flow_resis, air_dens, sound_spd, freq)

delany_bazley(flow_resis, air_dens, sound_spd, freq, var) ==
    IF var = "allard-champoux"
    THEN DBFormula("allard-champoux", flow_resis, air_dens, sound_spd, freq)
    ELSE IF var = "default"
    THEN DBFormula("default", flow_resis, air_dens, sound_spd, freq)
    ELSE IF var = "miki"
    THEN DBFormula("miki", flow_resis, air_dens, sound_spd, freq)
    ELSE Raise("ValueError")

----------------------------------------------------------------------------
(* pyabsorp/models/rayleigh.py *)

rayleigh(flow_resis, air_dens, sound_spd, poros, freq) ==
    LET Dens(f) == {air_dens * f, sound_spd, poros}
        T(q) == [qty |-> q, model |-> "R", var |-> "",
                 args |-> <<flow_resis, air_dens, sound_spd, poros>>,
                 ndarray |-> freq.ndarray, elems |-> ElemsOf(freq, [i \in DOMAIN freq.vals |-> Dens(freq.vals[i])])]
    IN  IF DivRaises(freq, [i \in DOMAIN freq.vals |-> Dens(freq.vals[i])]) THEN Raise("ZeroDivisionError")
        ELSE Return(<<T("zc"), T("kc")>>)

----------------------------------------------------------------------------
(* pyabsorp/models/biot_allard.py *)

formats ==
    [s \in {"circle", "square", "equi-tri", "retang"} |->
        CASE s = "circle" -> 100
          [] s = "square" -> 107
          [] s = "equi-tri" -> 111
          [] s = "retang" -> 81]

ShearDens(flow_resis, poros) == {flow_resis * poros}

\* the sign of num / den, the real base of ** 0.5
ShearBases(w, flow_resis, poros, tortu, air_dens) ==
    {8 * w * air_dens * tortu * flow_resis * poros}

shear_wave_default(omega, flow_resis, poros, tortu, shape, air_dens) ==
    LET c1 == IF shape \in DOMAIN formats THEN formats[shape] ELSE 100
        Dens(w) == ShearDens(flow_resis, poros)
    IN  IF DivRaises(omega, [i \in DOMAIN omega.vals |-> Dens(omega.vals[i])]) THEN Raise("ZeroDivisionError")
        ELSE Return([qty |-> "s", c1 |-> c1,
                     num |-> <<8, air_dens, tortu>>, den |-> <<flow_resis, poros>>,
                     ndarray |-> omega.ndarray,
                     elems |-> PowElems(omega,
                                  [i \in DOMAIN omega.vals |->
                                      ShearBases(omega.vals[i], flow_resis,
                                                 poros, tortu, air_dens)],
                                  ElemsOf(omega, [i \in DOMAIN omega.vals |-> Dens(omega.vals[i])]))])

shear_wave(omega, flow_resis, poros, tortu, shape, air_dens) ==
    IF shape \notin DOMAIN formats THEN Raise("KeyError")
    ELSE
    LET c1 == formats[shape]
        Dens(w) == ShearDens(flow_resis, poros)
    IN  IF DivRaises(omega, [i \in DOMAIN omega.vals |-> Dens(omega.vals[i])]) THEN Raise("ZeroDivisionError")
        ELSE Return([qty |-> "s", c1 |-> c1,
                     num |-> <<8, air_dens, tortu>>, den |-> <<flow_resis, poros>>,
                     ndarray |-> omega.ndarray,
                     elems |-> PowElems(omega,
                                  [i \in DOMAIN omega.vals |->
                                      ShearBases(omega.vals[i], flow_resis,
                                                 poros, tortu, air_dens)],
                                  ElemsOf(omega, [i \in DOMAIN omega.vals |-> Dens(omega.vals[i])]))])

\* divisors of biot_allard's own lines 90-105: 1j*omega*air_dens*tortu,
\* s (zero where its numerator 8*omega*air_dens*tortu is), B = prandtl**0.5,
\* and kE (zero where expans*atm is)
BADens(air_dens, tortu, expans, prandtl, atm, f) ==
    {f * air_dens * tortu, 8 * f * air_dens * tortu, prandtl, expans * atm}

biot_allard(flow_resis, air_dens, poros, tortu, expans, prandtl, atm, shape, freq) ==
    LET omega == freq
        s == shear_wave(omega, flow_resis, poros, tortu, shape, air_dens)
        Dens(f) == BADens(air_dens, tortu, expans, prandtl, atm, f)
                       \cup ShearDens(flow_resis, poros)
        own == ElemsOf(freq, [i \in DOMAIN freq.vals |-> Dens(freq.vals[i])])
        T(q) == [qty |-> q, model |-> "BA", var |-> "", s |-> s.val,
                 args |-> <<flow_resis, air_dens, poros, tortu, expans, prandtl, atm>>,
                 ndarray |-> freq.ndarray,
                 elems |-> [i \in DOMAIN own |->
                              IF own[i] = "num" THEN s.val.elems[i] ELSE own[i]]]
    IN  IF s.kind = "raise" THEN s
        ELSE IF DivRaises(freq, [i \in DOMAIN freq.vals |-> Dens(freq.vals[i])]) THEN Raise("ZeroDivisionError")
        ELSE Return(<<T("zc"), T("kc")>>)

----------------------------------------------------------------------------
(* pyabsorp/models/johnson_champoux.py *)

\* thermal conductivity of air, in thousandths (0.026 W/(mK))
KAPPA == 26

JCVariants == {"default", "allard", "lafarge"}

\* the divisors of each branch, at frequency f
JCDens(var, flow_resis, air_dens, poros, tortu, gama, prandtl, atm, visc, therm, neta, therm_perm, Cp, f) ==
    CASE var = "default" ->
            {flow_resis * flow_resis * poros * poros * visc * visc,
             f * air_dens * tortu,
             16 * neta,
             f * prandtl * air_dens * therm * therm,
             poros,
             gama * atm}
      [] var = "allard" ->
            {flow_resis * flow_resis * poros * poros * visc * visc,
             air_dens * tortu * f,
             flow_resis * flow_resis * poros * poros * therm * therm,
             air_dens * prandtl * tortu * f,
             poros,
             gama * atm}
      [] var = "lafarge" ->
            {flow_resis * flow_resis * visc * visc * poros * poros,
             f * air_dens * tortu,
             KAPPA * therm * therm * poros * poros,
             therm_perm * Cp * air_dens * f,
             poros,
             gama * atm}

\* the arguments each branch reads
JCUsed(var, flow_resis, air_dens, poros, tortu, gama, prandtl, atm, visc, therm, neta, therm_perm, Cp) ==
    IF var = "lafarge"
    THEN <<flow_resis, air_dens, poros, tortu, gama, atm, visc, therm, neta,
           therm_perm, Cp>>
    ELSE <<flow_resis, air_dens, poros, tortu, gama, prandtl, atm, visc,
           therm, neta>>

JCFormula(var, flow_resis, air_dens, poros, tortu, gama, prandtl, atm, visc, therm, neta, therm_perm, Cp, freq) ==
    LET Dens(f) == JCDens(var, flow_resis, air_dens, poros, tortu, gama,
                          prandtl, atm, visc, therm, neta, therm_perm, Cp, f)
        T(q) == [qty |-> q, model |-> "JC", var |-> var,
                 args |-> JCUsed(var, flow_resis, air_dens, poros, tortu, gama,
                                 prandtl, atm, visc, therm, neta, therm_perm, Cp),
                 ndarray |-> freq.ndarray, elems |-> ElemsOf(freq, [i \in DOMAIN freq.vals |-> Dens(freq.vals[i])])]
    IN  IF DivRaises(freq, [i \in DOMAIN freq.vals |-> Dens(freq.vals[i])]) THEN Raise("ZeroDivisionError")
        ELSE Return(<<T("zc"), T("kc")>>)

\* no else branch: an unrecognised var falls off the end and returns None
johnson_champoux(flow_resis, air_dens, poros, tortu, gama, prandtl, atm, visc, therm, neta, therm_perm, Cp, freq, var) ==
    IF var \in JCVariants
    THEN JCFormula(var, flow_resis, air_dens, poros, tortu, gama, prandtl, atm,
                   visc, therm, neta, therm_perm, Cp, freq)
    ELSE Return(None)

----------------------------------------------------------------------------
(* Direct calls of the module-level functions *)

\* a numeric argument is 1 or, for at most MaxZeroed of them, 0
Numeric(names) ==
    {[n \in names |-> IF n \in Z THEN 0 ELSE 1] :
        Z \in {S \in SUBSET names : Cardinality(S) <= MaxZeroed}}

VarNames == DBVariants \cup JCVariants \cup {"Default", "bogus"}

ShapeNames == DOMAIN formats \cup
    {"equilateral triangular", "retangular", "equilateral-triangle",
     "rectangular", "triangle"}

DirectCall(name, a, freq, var, shape) ==
    [name |-> name, args |-> a, freq |-> freq, var |-> var, shape |-> shape]

\* the calls made: every function, over the argument sets above
DirectCalls ==
    {DirectCall("delany_bazley", a, freq, var, "") :
        a \in Numeric({"flow_resis", "air_dens", "sound_spd"}),
        freq \in Sweeps, var \in VarNames}
    \cup
    {DirectCall("rayleigh", a, freq, "", "") :
        a \in Numeric({"flow_resis", "air_dens", "sound_spd", "poros"}),
        freq \in Sweeps}
    \cup
    {DirectCall("shear_wave", a, omega, "", shape) :
        a \in Numeric({"flow_resis", "poros", "tortu", "air_dens"}),
        omega \in Sweeps, shape \in ShapeNames}
    \cup
    {DirectCall("biot_allard", a, freq, "", shape) :
        a \in Numeric({"flow_resis", "air_dens", "poros", "tortu", "expans",
                       "prandtl", "atm"}),
        freq \in Sweeps, shape \in ShapeNames}
    \cup
    {DirectCall("johnson_champoux", a, freq, var, "") :
        a \in Numeric({"flow_resis", "air_dens", "poros", "tortu", "gama",
                       "prandtl", "atm", "visc", "therm", "neta",
                       "therm_perm", "Cp"}),
        freq \in Sweeps, var \in VarNames}

\* absorption_coefficient on one element given as numbers
Parts == (-MaxPart..MaxPart) \X (-MaxPart..MaxPart)

NumberCalls ==
    {DirectCall("absorption_coefficient",
                [zc |-> zc, t |-> t, z_air |-> z_air], None, "", "") :
        zc \in Parts, t \in Parts \ {<<0, 1>>, <<0, -1>>},
        z_air \in 0..MaxPart}

\* johnson_champoux_absorption on one element given as numbers; the
\* porosity is in halves
HelperCalls ==
    {DirectCall("johnson_champoux_absorption",
                [zc |-> zc, t |-> t, z_air |-> z_air, poros |-> poros],
                None, "", "") :
        zc \in Parts, t \in Parts \ {<<0, 1>>, <<0, -1>>},
        z_air \in 0..MaxPart, poros \in {1, 2}}

\* delany_bazley around the reference point f = 1000 Hz, flow resistivity
\* 1000, air density 1.2, sound speed 343
ReferenceCalls ==
    {DirectCall("delany_bazley",
                [flow_resis |-> r, air_dens |-> 12, sound_spd |-> 343],
                [ndarray |-> TRUE, vals |-> <<f>>], var, "") :
        r \in {1000, 1000000}, f \in {1, 1000}, var \in DBVariants}

NoCall == [kind |-> "none", exc |-> "", val |-> None]

\* the outcome of the direct call c of an evaluator
Outcome(c) ==
    CASE c.name = "delany_bazley" ->
            delany_bazley(c.args.flow_resis, c.args.air_dens,
                          c.args.sound_spd, c.freq, c.var)
      [] c.name = "rayleigh" ->
            rayleigh(c.args.flow_resis, c.args.air_dens, c.args.sound_spd,
                     c.args.poros, c.freq)
      [] c.name = "biot_allard" ->
            biot_allard(c.args.flow_resis, c.args.air_dens, c.args.poros,
                        c.args.tortu, c.args.expans, c.args.prandtl,
                        c.args.atm, c.shape, c.freq)
      [] c.name = "johnson_champoux" ->
            johnson_champoux(c.args.flow_resis, c.args.air_dens, c.args.poros,
                             c.args.tortu, c.args.gama, c.args.prandtl,
                             c.args.atm, c.args.visc, c.args.therm,
                             c.args.neta, c.args.therm_perm, c.args.Cp,
                             c.freq, c.var)

CallDelanyBazley ==
    /\ fn.name = "delany_bazley" /\ ret = NoCall
    /\ ret' = delany_bazley(fn.args.flow_resis, fn.args.air_dens,
                            fn.args.sound_spd, fn.freq, fn.var)
    /\ UNCHANGED <<ap, disk, io, fn, mat, th>>

CallRayleigh ==
    /\ fn.name = "rayleigh" /\ ret = NoCall
    /\ ret' = rayleigh(fn.args.flow_resis, fn.args.air_dens,
                       fn.args.sound_spd, fn.args.poros, fn.freq)
    /\ UNCHANGED <<ap, disk, io, fn, mat, th>>

CallShearWave ==
    /\ fn.name = "shear_wave" /\ ret = NoCall
    /\ ret' = shear_wave(fn.freq, fn.args.flow_resis, fn.args.poros,
                         fn.args.tortu, fn.shape, fn.args.air_dens)
    /\ UNCHANGED <<ap, disk, io, fn, mat, th>>

CallBiotAllard ==
    /\ fn.name = "biot_allard" /\ ret = NoCall
    /\ ret' = biot_allard(fn.args.flow_resis, fn.args.air_dens, fn.args.poros,
                          fn.args.tortu, fn.args.expans, fn.args.prandtl,
                          fn.args.atm, fn.shape, fn.freq)
    /\ UNCHANGED <<ap, disk, io, fn, mat, th>>

CallJohnsonChampoux ==
    /\ fn.name = "johnson_champoux" /\ ret = NoCall
    /\ ret' = johnson_champoux(fn.args.flow_resis, fn.args.air_dens,
                               fn.args.poros, fn.args.tortu, fn.args.gama,
                               fn.args.prandtl, fn.args.atm, fn.args.visc,
                               fn.args.therm, fn.args.neta,
                               fn.args.therm_perm, fn.args.Cp, fn.freq,
                               fn.var)
    /\ UNCHANGED <<ap, disk, io, fn, mat, th>>

----------------------------------------------------------------------------
(* pyabsorp/absorption.py *)

\* numpy broadcasting of two 1-d lengths: 0 when the shapes do not match
Broadcast(n, m) == IF n = m \/ m = 1 THEN n ELSE IF n = 1 THEN m ELSE 0

\* zs = -1j * (zc / np.tan(kc * d)); kc * None is a TypeError; tan(kc*0) = 0
\* is a zero divisor
absorption_coefficient(zc, kc, d, z_air) ==
    IF d = None THEN Raise("TypeError")
    ELSE
    LET n == Broadcast(Len(zc.elems), Len(kc.elems))
        At(e, i) == IF Len(e) = 1 THEN e[1] ELSE e[i]
        elems == [i \in 1..n |->
                    IF At(zc.elems, i) # "num" THEN At(zc.elems, i)
                    ELSE IF At(kc.elems, i) # "num" THEN At(kc.elems, i)
                    ELSE IF d[1] = 0 \/ z_air = 0 THEN "div0"
                    ELSE "num"]
    IN  IF n = 0 THEN Raise("ValueError")
        ELSE Return([qty |-> "absorption", zc |-> zc, kc |-> kc, d |-> d[1],
                     z_air |-> z_air, elems |-> elems])

----------------------------------------------------------------------------
(* pyabsorp/absorption.py on numbers, in exact arithmetic.  A complex      *)
(* number is <<re, im, den>>: (re + im*j) / den with integer parts.  The   *)
(* product kc * d enters through its tangent t = np.tan(kc * d), given as  *)
(* <<re, im>>: every complex number but j and -j is the tangent of some    *)
(* kc * d, and t is real exactly when kc * d is.                           *)

\* zs = -1j * (zc / t), for t # 0
zs_no_rotation(zc, t) ==
    <<zc[1] * t[1] + zc[2] * t[2],
      zc[2] * t[1] - zc[1] * t[2],
      t[1] * t[1] + t[2] * t[2]>>

zs(zc, t) ==
    <<zc[2] * t[1] - zc[1] * t[2],
      -(zc[1] * t[1] + zc[2] * t[2]),
      t[1] * t[1] + t[2] * t[2]>>

\* (zs + z_air) / (zs - z_air)
vp_swapped(s, z_air) ==
    LET A == s[1] + z_air * s[3]
        C == s[1] - z_air * s[3]
    IN  <<A * C + s[2] * s[2], s[2] * C - A * s[2], C * C + s[2] * s[2]>>

\* vp = (zs - z_air) / (zs + z_air); the third part is 0 where zs = -z_air
vp(s, z_air) ==
    LET A == s[1] - z_air * s[3]
        C == s[1] + z_air * s[3]
    IN  <<A * C + s[2] * s[2], s[2] * C - A * s[2], C * C + s[2] * s[2]>>

\* a real number num / den (den > 0), or the outcome of a division by zero
Real(num, den) == [what |-> "real", num |-> num, den |-> den]
NonFinite == [what |-> "nonfinite", num |-> 0, den |-> 1]

\* absorption = 1 - np.abs(vp) ** 2.  np.tan returns a numpy number, so a
\* zero divisor warns and gives inf or nan: nothing raises.
absorption(zc, t, z_air) ==
    IF t = <<0, 0>> THEN NonFinite
    ELSE LET r == vp(zs(zc, t), z_air)
         IN  IF r[3] = 0 THEN NonFinite
             ELSE Real(r[3] * r[3] - r[1] * r[1] - r[2] * r[2], r[3] * r[3])

CallAbsorptionCoefficient ==
    /\ fn.name = "absorption_coefficient" /\ ret = NoCall
    /\ ret' = Return(absorption(fn.args.zc, fn.args.t, fn.args.z_air))
    /\ UNCHANGED <<ap, disk, io, fn, mat, th>>

----------------------------------------------------------------------------
(* absorption_models.py: johnson_champoux_absorption on numbers, with      *)
(* t = np.tan(kc * d) and the porosity in halves                           *)

\* zs = 1j * (zc / poros) * (1 / np.tan(kc * d)), for t # 0
johnson_champoux_zs(zc, t, poros) ==
    <<2 * (zc[1] * t[2] - zc[2] * t[1]),
      2 * (zc[1] * t[1] + zc[2] * t[2]),
      poros * (t[1] * t[1] + t[2] * t[2])>>

\* reflex = (zs - c_imp_air) / (zs + c_imp_air);
\* absorption = 1 - np.abs(reflex) ** 2
johnson_champoux_absorption(zc, t, c_imp_air, poros) ==
    IF t = <<0, 0>> THEN NonFinite
    ELSE LET r == vp(johnson_champoux_zs(zc, t, poros), c_imp_air)
         IN  IF r[3] = 0 THEN NonFinite
             ELSE Real(r[3] * r[3] - r[1] * r[1] - r[2] * r[2], r[3] * r[3])

CallJohnsonChampouxAbsorption ==
    /\ fn.name = "johnson_champoux_absorption" /\ ret = NoCall
    /\ ret' = Return(johnson_champoux_absorption(fn.args.zc, fn.args.t,
                                                 fn.args.z_air, fn.args.poros))
    /\ UNCHANGED <<ap, disk, io, fn, mat, th>>

----------------------------------------------------------------------------
(* pyabsorp/models/biot_allard.py: biot_allard_absorption *)

\* z / p on an impedance term.  Porosity is kept in halves (1 is 0.5 and 2
\* is 1.0), so only p = 2 leaves the operand as it is.
Divide(z, p) ==
    IF p = 2 THEN z
    ELSE [qty |-> "quot", num |-> z, den |-> p, ndarray |-> z.ndarray,
          elems |-> [i \in DOMAIN z.elems |->
                        IF p = 0 THEN "div0" ELSE z.elems[i]]]

\* how many times the formula of an impedance term divides by the porosity:
\* johnson_champoux forms zc from rho_ef / poros and k_ef / poros, rayleigh
\* from (air_dens * sound_spd) / poros; biot_allard and delany_bazley do not
\* divide
PorosityDivisions(z) ==
    IF z.qty = "quot"
    THEN 1 + (IF z.num.model \in {"JC", "R"} THEN 1 ELSE 0)
    ELSE IF z.model \in {"JC", "R"} THEN 1 ELSE 0

\* zs = -1j * ((zc/poros) / np.tan(kc * d)), then the transform's two lines
biot_allard_absorption(zc, kc, d, c_imp_air, poros) ==
    absorption_coefficient(Divide(zc, poros), kc, d, c_imp_air)

----------------------------------------------------------------------------
(* pyabsorp/classes/material.py *)

Callers == {1, 2}

\* the Air object of the Material: any valid air state (all properties
\* positive)
Air ==
    [density |-> 1, speed |-> 1, specific_heat_ratio |-> 1, prandtl |-> 1,
     atmospheric_pressure |-> 1, viscosity |-> 1, specific_heat_cp |-> 1,
     impedance |-> 1]

NumAttrs ==
    {"thickness", "porosity", "tortuosity", "flow_resistivity",
     "thermal_length", "viscosity_length", "thermal_permeability"}

Attrs == NumAttrs \cup {"shape"}

MatShapes == {"circle", "equi-tri", "retangular"}

\* the sweeps handed to estimate_absorption: ndarrays of each length
MatSweeps ==
    {[ndarray |-> TRUE, vals |-> [i \in 1..n |-> 100 * i]] : n \in 1..MaxLen}

\* np.arange(100, 10001, 1), shortened
DefaultFrequencies == [ndarray |-> TRUE, vals |-> <<100>>]

\* the dataclass as constructed: every attribute given or left at its
\* default None; impedance, wave_number and absorption are not held yet
Materials ==
    {[a \in Attrs \cup {"frequencies", "impedance", "wave_number", "absorption"} |->
        CASE a \in U -> None
          [] a = "shape" /\ a \notin U -> Some(sh)
          [] a \in NumAttrs \ U -> Some(1)
          [] a = "frequencies" -> Some(DefaultFrequencies)
          [] OTHER -> None] :
        U \in {S \in SUBSET Attrs : Cardinality(S) <= MaxUnset},
        sh \in MatShapes}

Held(m) == <<m.impedance, m.wave_number, m.absorption>>

\* truth value of an attribute: None and 0 (and '') are false
Truthy(o) == o # None /\ o[1] # 0
TruthyStr(o) == o # None /\ o[1] # ""

all(seq) == \A i \in 1..Len(seq) : Truthy(seq[i])

\* str.upper() on the method names used
upper(method) ==
    CASE method = "db" -> "DB"
      [] method = "ray" -> "RAY"
      [] method = "jc" -> "JC"
      [] OTHER -> method

MethodNames == {"db", "ray", "BA", "jc", "XX"}
MatVars == {"default", "lafarge", "bogus"}

\* zc, kc = <evaluator>(...): unpacking None is a TypeError
Unpack(o) ==
    IF o.kind = "return" /\ o.val = None THEN Raise("TypeError") ELSE o

\* `else: raise ValueError` missing: zc is then unbound at line 167
Evaluate_no_else(m, frequencies, method, var) ==
    LET M == upper(method) IN
    IF M \in {"DB", "DELANY-BAZLEY"} THEN
        IF ~all(<<m.flow_resistivity>>) THEN Raise("ValueError")
        ELSE Unpack(delany_bazley(m.flow_resistivity[1], Air.density,
                                  Air.speed, frequencies, var))
    ELSE IF M \in {"R", "RAY", "RAYLEIGH"} THEN
        IF ~all(<<m.flow_resistivity, m.porosity>>) THEN Raise("ValueError")
        ELSE Unpack(rayleigh(m.flow_resistivity[1], Air.density, Air.speed,
                             m.porosity[1], frequencies))
    ELSE IF M \in {"BA", "BIOT-ALLARD"} THEN
        IF ~(all(<<m.flow_resistivity, m.porosity, m.tortuosity>>)
             /\ TruthyStr(m.shape))
        THEN Raise("ValueError")
        ELSE Unpack(biot_allard(m.flow_resistivity[1], Air.density,
                                m.porosity[1], m.tortuosity[1],
                                Air.specific_heat_ratio, Air.prandtl,
                                Air.atmospheric_pressure, m.shape[1],
                                frequencies))
    ELSE IF M \in {"JC", "JOHNSON-CHAMPOUX"} THEN
        IF ~all(<<m.flow_resistivity, m.porosity, m.thermal_length,
                  m.tortuosity, m.viscosity_length>>)
        THEN Raise("ValueError")
        ELSE Unpack(johnson_champoux(
                        m.flow_resistivity[1], Air.density, m.porosity[1],
                        m.tortuosity[1], Air.specific_heat_ratio, Air.prandtl,
                        Air.atmospheric_pressure, m.viscosity_length[1],
                        m.thermal_length[1], Air.viscosity,
                        IF ~Truthy(m.thermal_permeability) THEN 0
                        ELSE m.thermal_permeability[1],
                        Air.specific_heat_cp, frequencies, var))
    ELSE Raise("UnboundLocalError")

\* lines 120-165: the dispatch on method, the completeness check and the
\* evaluator call
Evaluate(m, frequencies, method, var) ==
    LET M == upper(method) IN
    IF M \in {"DB", "DELANY-BAZLEY"} THEN
        IF ~all(<<m.flow_resistivity>>) THEN Raise("ValueError")
        ELSE Unpack(delany_bazley(m.flow_resistivity[1], Air.density,
                                  Air.speed, frequencies, var))
    ELSE IF M \in {"R", "RAY", "RAYLEIGH"} THEN
        IF ~all(<<m.flow_resistivity, m.porosity>>) THEN Raise("ValueError")
        ELSE Unpack(rayleigh(m.flow_resistivity[1], Air.density, Air.speed,
                             m.porosity[1], frequencies))
    ELSE IF M \in {"BA", "BIOT-ALLARD"} THEN
        IF ~(all(<<m.flow_resistivity, m.porosity, m.tortuosity>>)
             /\ TruthyStr(m.shape))
        THEN Raise("ValueError")
        ELSE Unpack(biot_allard(m.flow_resistivity[1], Air.density,
                                m.porosity[1], m.tortuosity[1],
                                Air.specific_heat_ratio, Air.prandtl,
                                Air.atmospheric_pressure, m.shape[1],
                                frequencies))
    ELSE IF M \in {"JC", "JOHNSON-CHAMPOUX"} THEN
        IF ~all(<<m.flow_resistivity, m.porosity, m.thermal_length,
                  m.tortuosity, m.viscosity_length>>)
        THEN Raise("ValueError")
        ELSE Unpack(johnson_champoux(
                        m.flow_resistivity[1], Air.density, m.porosity[1],
                        m.tortuosity[1], Air.specific_heat_ratio, Air.prandtl,
                        Air.atmospheric_pressure, m.viscosity_length[1],
                        m.thermal_length[1], Air.viscosity,
                        IF ~Truthy(m.thermal_permeability) THEN 0
                        ELSE m.thermal_permeability[1],
                        Air.specific_heat_cp, frequencies, var))
    ELSE Raise("ValueError")

\* the evaluator is called first and the parameters are looked at after it
Invoked_before_check(m, method) ==
    LET M == upper(method) IN
    IF M \in {"DB", "DELANY-BAZLEY"} THEN <<"delany_bazley">>
    ELSE IF M \in {"R", "RAY", "RAYLEIGH"} THEN <<"rayleigh">>
    ELSE IF M \in {"BA", "BIOT-ALLARD"} THEN <<"biot_allard">>
    ELSE IF M \in {"JC", "JOHNSON-CHAMPOUX"} THEN <<"johnson_champoux">>
    ELSE <<>>

\* lines 120-165: the evaluators that are called, in order.  Each branch
\* raises at its `if not all(...)` before its evaluator call, and the else
\* branch calls none.
Invoked(m, method) ==
    LET M == upper(method) IN
    IF M \in {"DB", "DELANY-BAZLEY"} THEN
        IF ~all(<<m.flow_resistivity>>) THEN <<>> ELSE <<"delany_bazley">>
    ELSE IF M \in {"R", "RAY", "RAYLEIGH"} THEN
        IF ~all(<<m.flow_resistivity, m.porosity>>) THEN <<>>
        ELSE <<"rayleigh">>
    ELSE IF M \in {"BA", "BIOT-ALLARD"} THEN
        IF ~(all(<<m.flow_resistivity, m.porosity, m.tortuosity>>)
             /\ TruthyStr(m.shape))
        THEN <<>>
        ELSE <<"biot_allard">>
    ELSE IF M \in {"JC", "JOHNSON-CHAMPOUX"} THEN
        IF ~all(<<m.flow_resistivity, m.porosity, m.thermal_length,
                  m.tortuosity, m.viscosity_length>>)
        THEN <<>>
        ELSE <<"johnson_champoux">>
    ELSE <<>>

\* a caller outside any call; `calls` lists the functions the call has
\* invoked so far
Idle ==
    [pc |-> "idle", method |-> "", var |-> "", frequencies |-> None,
     zc |-> None, kc |-> None, arg_zc |-> None, arg_kc |-> None,
     absorption |-> None, result |-> NoCall, before |-> <<None, None, None>>,
     calls |-> <<>>]

\* estimate_absorption is entered: lines 120-165 run on the attributes as
\* they are.  `before` records what the material held at entry.
Call(t) ==
    /\ th[t].pc \in {"idle", "returned", "raised"}
    /\ \E frequencies \in MatSweeps, method \in MethodNames, var \in MatVars :
        LET o == Evaluate(mat, frequencies, method, var)
            entered == [Idle EXCEPT !.method = method, !.var = var,
                                    !.frequencies = Some(frequencies),
                                    !.before = Held(mat),
                                    !.calls = Invoked(mat, method)]
        IN  th' = [th EXCEPT ![t] =
                    IF o.kind = "raise"
                    THEN [entered EXCEPT !.pc = "raised", !.result = o]
                    ELSE [entered EXCEPT !.pc = "set_frequencies",
                                         !.zc = Some(o.val[1]),
                                         !.kc = Some(o.val[2])]]
    /\ UNCHANGED <<ap, disk, io, fn, ret, mat>>

\* line 166: self.frequencies = frequencies
SetFrequencies(t) ==
    /\ th[t].pc = "set_frequencies"
    /\ mat' = [mat EXCEPT !.frequencies = th[t].frequencies]
    /\ th' = [th EXCEPT ![t].pc = "set_impedance"]
    /\ UNCHANGED <<ap, disk, io, fn, ret>>

\* line 167: self.impedance = zc
SetImpedance(t) ==
    /\ th[t].pc = "set_impedance"
    /\ mat' = [mat EXCEPT !.impedance = th[t].zc]
    /\ th' = [th EXCEPT ![t].pc = "set_wave_number"]
    /\ UNCHANGED <<ap, disk, io, fn, ret>>

\* line 168: self.wave_number = kc
SetWaveNumber(t) ==
    /\ th[t].pc = "set_wave_number"
    /\ mat' = [mat EXCEPT !.wave_number = th[t].kc]
    /\ th' = [th EXCEPT ![t].pc = "load_impedance"]
    /\ UNCHANGED <<ap, disk, io, fn, ret>>

\* line 169: the argument self.impedance is read back from the object
LoadImpedance(t) ==
    /\ th[t].pc = "load_impedance"
    /\ th' = [th EXCEPT ![t].arg_zc = mat.impedance,
                        ![t].pc = "load_wave_number"]
    /\ UNCHANGED <<ap, disk, io, fn, ret, mat>>

\* line 170: the argument self.wave_number is read back from the object
LoadWaveNumber(t) ==
    /\ th[t].pc = "load_wave_number"
    /\ th' = [th EXCEPT ![t].arg_kc = mat.wave_number,
                        ![t].pc = "transform"]
    /\ UNCHANGED <<ap, disk, io, fn, ret, mat>>

\* lines 171-172: self.thickness and self.air.impedance are read and
\* absorption_coefficient runs
Transform(t) ==
    /\ th[t].pc = "transform"
    /\ LET o == absorption_coefficient(th[t].arg_zc[1], th[t].arg_kc[1],
                                       mat.thickness, Air.impedance)
       IN  th' = [th EXCEPT ![t] =
                    IF o.kind = "raise"
                    THEN [@ EXCEPT !.pc = "raised", !.result = o,
                                   !.calls = Append(@, "absorption_coefficient")]
                    ELSE [@ EXCEPT !.pc = "set_absorption",
                                   !.absorption = Some(o.val),
                                   !.calls = Append(@, "absorption_coefficient")]]
    /\ UNCHANGED <<ap, disk, io, fn, ret, mat>>

\* self.absorption is assigned only while nothing is held
SetAbsorption_keep_first(t) ==
    /\ th[t].pc = "set_absorption"
    /\ mat' = IF mat.absorption = None
              THEN [mat EXCEPT !.absorption = th[t].absorption]
              ELSE mat
    /\ th' = [th EXCEPT ![t].pc = "return"]
    /\ UNCHANGED <<ap, disk, io, fn, ret>>

\* line 169: self.absorption = <the transform's value>
SetAbsorption(t) ==
    /\ th[t].pc = "set_absorption"
    /\ mat' = [mat EXCEPT !.absorption = th[t].absorption]
    /\ th' = [th EXCEPT ![t].pc = "return"]
    /\ UNCHANGED <<ap, disk, io, fn, ret>>

\* line 173: return self.absorption
ReturnAbsorption(t) ==
    /\ th[t].pc = "return"
    /\ th' = [th EXCEPT ![t].pc = "returned",
                        ![t].result = Return(mat.absorption)]
    /\ UNCHANGED <<ap, disk, io, fn, ret, mat>>

\* the statements after the evaluator call, lines 166-173
Proceed(t) ==
    \/ SetFrequencies(t)
    \/ SetImpedance(t)
    \/ SetWaveNumber(t)
    \/ LoadImpedance(t)
    \/ LoadWaveNumber(t)
    \/ Transform(t)
    \/ SetAbsorption(t)
    \/ ReturnAbsorption(t)

Step(t) == Call(t) \/ Proceed(t)

----------------------------------------------------------------------------
(* pyabsorp/utils/pickle_utils.py *)

\* a file name is <<stem, extension>>
FileNames == {<<"a", ".pkl">>, <<"b", ".pkl">>, <<"a", ".txt">>}

endswith(file_name, suffix) == file_name[2] = suffix

\* the objects handed to the utilities: an Air and the fully set Materials
PickleObjects ==
    {Air} \cup {m \in Materials : \A a \in Attrs : m[a] # None}

\* a file's contents: no bytes, or the bytes of one pickled object
EmptyBytes == <<>>

\* pickle.dump(obj, file, pickle.HIGHEST_PROTOCOL) writes these bytes
dump(obj) == [protocol |-> "HIGHEST_PROTOCOL", payload |-> obj]

\* open(file_name, mode): "wb" creates or truncates the file, "rb" needs it
\* to exist and leaves it as it is
open(d, file_name, mode) ==
    IF mode = "wb" THEN Return([d EXCEPT ![file_name] = Some(EmptyBytes)])
    ELSE IF d[file_name] = None THEN Raise("FileNotFoundError")
    ELSE Return(d)

\* pickle.load(file) on a file opened in `mode` holding `bytes`: a file
\* opened for writing cannot be read (io.UnsupportedOperation, a ValueError
\* and an OSError); no bytes is EOFError
load(mode, bytes) ==
    IF mode = "wb" THEN Raise("UnsupportedOperation")
    ELSE IF bytes = EmptyBytes THEN Raise("EOFError")
    ELSE Return(bytes.payload)

\* every file name passes
endswith_pkl_check_any(file_name) == Return(None)

\* __endswith_pkl_check
endswith_pkl_check(file_name) ==
    IF ~endswith(file_name, ".pkl") THEN Raise("ValueError") ELSE Return(None)

NoIO ==
    [op |-> "", file_name |-> <<>>, out |-> NoCall,
     saved |-> [n \in FileNames |-> None], opened |-> <<>>]

\* save_object_with_pickle(file_name, obj), lines 37-41
save_object_with_pickle ==
    \E file_name \in FileNames, obj \in PickleObjects :
        LET chk == endswith_pkl_check(file_name)
            opened == open(disk, file_name, "wb")
        IN  /\ disk' = IF chk.kind = "raise" THEN disk
                       ELSE [opened.val EXCEPT ![file_name] = Some(dump(obj))]
            /\ io' = [op |-> "save", file_name |-> file_name,
                      out |-> IF chk.kind = "raise" THEN chk ELSE Return(None),
                      saved |-> IF chk.kind = "raise" THEN io.saved
                                ELSE [io.saved EXCEPT ![file_name] = Some(obj)],
                      opened |-> IF chk.kind = "raise" THEN <<>> ELSE <<"wb">>]
            /\ UNCHANGED <<ap, fn, ret, mat, th>>

\* load_object_with_pickle(file_name), lines 53-61: the file is opened with
\* mode "wb"; the except clause re-raises
load_object_with_pickle ==
    \E file_name \in FileNames :
        LET chk == endswith_pkl_check(file_name)
            opened == open(disk, file_name, "wb")
            obj == IF opened.kind = "raise" THEN opened
                   ELSE load("wb", opened.val[file_name][1])
        IN  /\ disk' = IF chk.kind = "raise" \/ opened.kind = "raise" THEN disk
                       ELSE opened.val
            /\ io' = [io EXCEPT !.op = "load", !.file_name = file_name,
                                !.out = IF chk.kind = "raise" THEN chk ELSE obj,
                                !.opened = IF chk.kind = "raise" THEN <<>>
                                           ELSE <<"wb">>]
            /\ UNCHANGED <<ap, fn, ret, mat, th>>

----------------------------------------------------------------------------
(* pyabsorp/air/air_functions.py, on Python floats as documented, in exact *)
(* arithmetic.  An integer of any size is [neg, mag], mag its magnitude as *)
(* a sequence of decimal groups of three digits, lowest group first, without *)
(* leading zero groups.  A number is [n, e, d], the fraction n / (10^e * d) *)
(* of such integers, d positive and zero written 0 / (10^0 * 1).  A         *)
(* division of Python floats by zero raises ZeroDivisionError.              *)

Abs(n) == IF n < 0 THEN -n ELSE n

Max(S) == CHOOSE x \in S : \A y \in S : y <= x

\* the groups of a up to the highest of the groups nz
UpTo(a, nz) == IF nz = {} THEN <<>> ELSE SubSeq(a, 1, Max(nz))

\* a without its leading zero groups
MTrim(a) == UpTo(a, {i \in 1..Len(a) : a[i] # 0})

\* the magnitude of n >= 0
Limbs(n) ==
    MTrim(<<n % 1000, (n \div 1000) % 1000, (n \div 1000000) % 1000,
            n \div 1000000000>>)

At(a, i) == IF i \in 1..Len(a) THEN a[i] ELSE 0

\* the function f on 1..n as a sequence
Groups(f) == f \o <<>>

\* the groups of v, each below 2000, with the carries taken over: a carry
\* enters group k from a lower group that overflows through groups of 999
Ripple(v) ==
    LET Carry(k) == \E j \in 1..(k - 1) :
                        v[j] >= 1000 /\ \A m \in (j + 1)..(k - 1) : v[m] = 999
    IN  MTrim(Groups([k \in 1..(Len(v) + 1) |->
                         (At(v, k) + IF Carry(k) THEN 1 ELSE 0) % 1000]))

\* a + b
MAdd(a, b) ==
    Ripple(Groups([k \in 1..Max({Len(a), Len(b)}) |-> At(a, k) + At(b, k)]))

\* a - b for a >= b
MSub(a, b) ==
    LET Borrow(k) == \E j \in 1..(k - 1) :
                         /\ a[j] < At(b, j)
                         /\ \A m \in (j + 1)..(k - 1) : a[m] = At(b, m)
    IN  MTrim(Groups([k \in 1..Len(a) |->
                         (a[k] - At(b, k) - (IF Borrow(k) THEN 1 ELSE 0) + 1000)
                         % 1000]))

\* a < b
MLess(a, b) ==
    IF Len(a) # Len(b) THEN Len(a) < Len(b)
    ELSE \E k \in 1..Len(a) :
             a[k] < b[k] /\ \A m \in (k + 1)..Len(a) : a[m] = b[m]

RECURSIVE Dot(_, _, _, _, _)
\* the sum of a[i] * b[k + 1 - i] over i in lo..hi
Dot(a, b, k, lo, hi) ==
    IF lo > hi THEN 0
    ELSE IF lo = hi THEN a[lo] * b[k + 1 - lo]
    ELSE Dot(a, b, k, lo, (lo + hi) \div 2)
         + Dot(a, b, k, (lo + hi) \div 2 + 1, hi)

\* the groups of v, each of any size, spread over the groups above them
Squash(v) ==
    Groups([k \in 1..(Len(v) + 3) |->
               (At(v, k) % 1000) + ((At(v, k - 1) \div 1000) % 1000)
               + ((At(v, k - 2) \div 1000000) % 1000)
               + (At(v, k - 3) \div 1000000000)])

\* a * b
MMul(a, b) ==
    IF a = <<>> \/ b = <<>> THEN <<>>
    ELSE Ripple(Squash(Squash(Groups(
             [k \in 1..(Len(a) + Len(b) - 1) |->
                 Dot(a, b, k, Max({1, k + 1 - Len(b)}),
                     IF k < Len(a) THEN k ELSE Len(a))]))))

Z(n) == [neg |-> n < 0, mag |-> Limbs(Abs(n))]
ZSign(a) == IF a.mag = <<>> THEN 0 ELSE IF a.neg THEN -1 ELSE 1
ZNeg(a) == [neg |-> ~a.neg /\ a.mag # <<>>, mag |-> a.mag]
ZMul(a, b) == [neg |-> ZSign(a) * ZSign(b) < 0, mag |-> MMul(a.mag, b.mag)]
ZAdd(a, b) ==
    IF a.neg = b.neg THEN [neg |-> a.neg, mag |-> MAdd(a.mag, b.mag)]
    ELSE IF a.mag = b.mag THEN Z(0)
    ELSE IF MLess(a.mag, b.mag)
         THEN [neg |-> b.neg, mag |-> MSub(b.mag, a.mag)]
    ELSE [neg |-> a.neg, mag |-> MSub(a.mag, b.mag)]

\* a * 10^k
ZShift(a, k) ==
    IF a.mag = <<>> THEN a
    ELSE [neg |-> a.neg,
          mag |-> Groups([i \in 1..(k \div 3) |-> 0])
                  \o MMul(a.mag, IF k % 3 = 0 THEN <<1>>
                                 ELSE IF k % 3 = 1 THEN <<10>> ELSE <<100>>)]

\* the fraction n / (10^e * d), d # 0
Frac(n, e, d) ==
    IF ZSign(n) = 0 THEN [n |-> Z(0), e |-> 0, d |-> Z(1)]
    ELSE IF ZSign(d) < 0 THEN [n |-> ZNeg(n), e |-> e, d |-> ZNeg(d)]
    ELSE [n |-> n, e |-> e, d |-> d]

\* the decimal literal m * 10^-e
Dec(m, e) == Frac(Z(m), e, Z(1))

QSign(a) == ZSign(a.n)
QNeg(a) == [a EXCEPT !.n = ZNeg(a.n)]
\* x / (10^e * a.d) + y / (10^e * b.d)
Sum(a, b, e, x, y) ==
    IF a.d = b.d THEN Frac(ZAdd(x, y), e, a.d)
    ELSE Frac(ZAdd(ZMul(x, b.d), ZMul(y, a.d)), e, ZMul(a.d, b.d))
Aligned(a, b, e) == Sum(a, b, e, ZShift(a.n, e - a.e), ZShift(b.n, e - b.e))
QAdd(a, b) == Aligned(a, b, IF a.e > b.e THEN a.e ELSE b.e)
QSub(a, b) == QAdd(a, QNeg(b))
QMul(a, b) == Frac(ZMul(a.n, b.n), a.e + b.e, ZMul(a.d, b.d))
\* a / b
QDiv(a, b) ==
    IF QSign(b) = 0 THEN Raise("ZeroDivisionError")
    ELSE Return(Frac(ZShift(ZMul(a.n, b.d), IF b.e > a.e THEN b.e - a.e ELSE 0),
                     IF a.e > b.e THEN a.e - b.e ELSE 0,
                     ZMul(a.d, b.n)))
\* a < b
QLess(a, b) == QSign(QSub(a, b)) < 0

\* the default of the keyword AIR_CONST: 287.031
AIR_CONST == Dec(287031, 3)
\* the default of the keyword WATER_CONST: 461.521
WATER_CONST == Dec(461521, 3)

\* t += 273.16
ceilsius_to_kelvin(t) == QAdd(t, Dec(27316, 2))

\* 7.72488e-8 * t - 5.95238e-11 * t**2 + 2.71368e-14 * t**3
viscosity(t) ==
    QAdd(QSub(QMul(Dec(772488, 13), t),
              QMul(Dec(595238, 16), QMul(t, t))),
         QMul(Dec(271368, 19), QMul(t, QMul(t, t))))

\* 0.0658 * t**3 - 53.7558 * t**2 + 14703.8127 * t - 1345485.0465
pierce(t) ==
    QSub(QAdd(QSub(QMul(Dec(658, 4), QMul(t, QMul(t, t))),
                   QMul(Dec(537558, 4), QMul(t, t))),
              QMul(Dec(147038127, 4), t)),
         QAdd(Dec(1345485, 0), Dec(465, 4)))

\* 4168.8 * (0.249679 - 7.55179e-5 * t + 1.69194e-7 * t**2
\*           - 6.46128e-11 * t**3)
specific_heat_constant_pressure(t) ==
    QMul(Dec(41688, 1),
         QSub(QAdd(QSub(Dec(249679, 6), QMul(Dec(755179, 10), t)),
                   QMul(Dec(169194, 12), QMul(t, t))),
              QMul(Dec(646128, 16), QMul(t, QMul(t, t)))))

\* Cp - AIR_CONST
specific_heat_constant_volume(Cp, air_const) == QSub(Cp, air_const)

\* viscosity * Cp / KAPPA
prandtl(visc, Cp, kappa) == QDiv(QMul(visc, Cp), kappa)

\* Cp / Cv
specific_heat_ratio(Cp, Cv) == QDiv(Cp, Cv)

\* x - y, x * y and x / y of two outcomes, x evaluated first: an error
\* raised by x or by y is the outcome
RSub(x, y) ==
    IF x.kind = "raise" THEN x ELSE IF y.kind = "raise" THEN y
    ELSE Return(QSub(x.val, y.val))
RMul(x, y) ==
    IF x.kind = "raise" THEN x ELSE IF y.kind = "raise" THEN y
    ELSE Return(QMul(x.val, y.val))
RDiv(x, y) ==
    IF x.kind = "raise" THEN x ELSE IF y.kind = "raise" THEN y
    ELSE QDiv(x.val, y.val)

\* atmospheric_pressure / (AIR_CONST * t)
\*     - (1 / AIR_CONST - 1 / WATER_CONST) * humidity / 100 * pierce / t
air_density(t, humidity, atmospheric_pressure, p, air_constant, water_constant) ==
    RSub(QDiv(atmospheric_pressure, QMul(air_constant, t)),
         RDiv(RMul(RDiv(RMul(RSub(QDiv(Dec(1, 0), air_constant),
                                  QDiv(Dec(1, 0), water_constant)),
                             Return(humidity)),
                        Return(Dec(100, 0))),
                   Return(p)),
              Return(t)))

\* q ** 0.5: the root is left as a term (of a negative number it is a
\* complex number, not an error)
Root(q) == IF q.kind = "raise" THEN q ELSE Return([qty |-> "sqrt", of |-> q.val])

\* the division yields inf (or nan) instead of raising
sound_speed_ieee(gama, atmospheric_pressure, density) ==
    IF QSign(density) = 0 THEN Return([qty |-> "inf"])
    ELSE Root(QDiv(QMul(gama, atmospheric_pressure), density))

\* (gama * atmospheric_pressure / air_density) ** 0.5
sound_speed(gama, atmospheric_pressure, density) ==
    Root(QDiv(QMul(gama, atmospheric_pressure), density))

\* sound_speed * air_density
air_impedance(c0, density) == [qty |-> "prod", of |-> <<c0, density>>]

\* lines 43-44: impedance = air_impedance(c0, density), then the return
Impedance(c0, density, visc, gama, prandtl_number, Cp) ==
    IF c0.kind = "raise" THEN c0
    ELSE Return(<<c0.val, density, air_impedance(c0.val, density), visc,
                  gama, prandtl_number, Cp>>)

\* line 42: c0 = sound_speed(gama, atmospheric_pressure, density), reached
\* when none of gama, prandtl_number and density raised
SoundSpeed(atmospheric_pressure, visc, Cp, gama, prandtl_number, density) ==
    IF gama.kind = "raise" THEN gama
    ELSE IF prandtl_number.kind = "raise" THEN prandtl_number
    ELSE IF density.kind = "raise" THEN density
    ELSE Impedance(sound_speed(gama.val, atmospheric_pressure, density.val),
                   density.val, visc, gama.val, prandtl_number.val, Cp)

\* lines 37-41; specific_heat_constant_volume is called with Cp alone, so
\* the keyword AIR_CONST keeps its default
Ratios(temp, humidity, atmospheric_pressure, kappa, air_constant, water_constant, visc, p, Cp) ==
    SoundSpeed(atmospheric_pressure, visc, Cp,
               specific_heat_ratio(Cp, specific_heat_constant_volume(Cp, AIR_CONST)),
               prandtl(visc, Cp, kappa),
               air_density(temp, humidity, atmospheric_pressure, p,
                           air_constant, water_constant))

\* lines 35-36: visc, p and Cp at the absolute temperature
Polynomials(temp, humidity, atmospheric_pressure, kappa, air_constant, water_constant) ==
    Ratios(temp, humidity, atmospheric_pressure, kappa, air_constant,
           water_constant, viscosity(temp), pierce(temp),
           specific_heat_constant_pressure(temp))

air_properties(t, humidity, atmospheric_pressure, kappa, air_constant, water_constant) ==
    Polynomials(ceilsius_to_kelvin(t), humidity, atmospheric_pressure, kappa,
                air_constant, water_constant)

\* temperatures in Celsius: 0 K, 260 K, 20 Celsius and 600 K
Temperatures == {Dec(-27316, 2), Dec(-1316, 2), Dec(20, 0), Dec(32684, 2)}

\* the pressure at which the dry and the humid term of the density cancel
Balance(t, humidity, air_constant, water_constant) ==
    QMul(QMul(QSub(Dec(1, 0), QDiv(air_constant, water_constant).val),
              QMul(humidity, Dec(1, 2))),
         pierce(ceilsius_to_kelvin(t)))

AirCalls ==
    {DirectCall("air_properties",
                [t |-> t, humidity |-> Dec(h, 0),
                 atmospheric_pressure |->
                     IF a < 0 THEN Balance(t, Dec(h, 0), A, W) ELSE Dec(a, 0),
                 kappa |-> k, air_constant |-> A, water_constant |-> W],
                None, "", "") :
        t \in Temperatures, h \in {0, 50, 100}, a \in {-1, 0, 1, 101325},
        k \in {Dec(0, 0), Dec(26, 3)}, A \in {AIR_CONST, Dec(300, 0)},
        W \in {WATER_CONST, Dec(600, 0)}}

CallAirProperties ==
    /\ fn.name = "air_properties" /\ ret = NoCall
    /\ ret' = air_properties(fn.args.t, fn.args.humidity,
                             fn.args.atmospheric_pressure, fn.args.kappa,
                             fn.args.air_constant, fn.args.water_constant)
    /\ UNCHANGED <<ap, disk, io, fn, mat, th>>

\* the objects a caller passes as t: a Python float, or a numpy array of
\* one float64 element; val is the number held
TemperatureObjects ==
    {[type |-> type, val |-> t] : type \in {"float", "ndarray"}, t \in Temperatures}

\* t += x.  A float has no __iadd__: the sum is a new object bound to the
\* local name and the caller's object stays as it is.  ndarray.__iadd__
\* adds into the array itself, which is the caller's object.
InPlaceAdd(t, x) ==
    [local |-> [t EXCEPT !.val = QAdd(t.val, x)],
     caller |-> IF t.type = "ndarray" THEN [t EXCEPT !.val = QAdd(t.val, x)]
                ELSE t]

\* ceilsius_to_kelvin called, up to twice, with the same object; ret holds
\* the values returned so far
KelvinCalls ==
    {DirectCall("ceilsius_to_kelvin", [t |-> t], None, "", "") :
        t \in TemperatureObjects}

\* lines 56-57: t += 273.16, return t
CallCeilsiusToKelvin ==
    /\ fn.name = "ceilsius_to_kelvin"
    /\ ret = NoCall \/ Len(ret.val) < 2
    /\ \E r \in {InPlaceAdd(fn.args.t, Dec(27316, 2))} :
          /\ fn' = [fn EXCEPT !.args.t = r.caller]
          /\ ret' = Return(Append(IF ret = NoCall THEN <<>> ELSE ret.val,
                                  r.local.val))
    /\ UNCHANGED <<ap, disk, io, mat, th>>

----------------------------------------------------------------------------
(* pyabsorp/air.py: the AirProperties object.  A value handed to a setter  *)
(* is [type, val], type the name of its Python type and val its number.    *)

\* air_properties(temp, hum, atm) of air.py: the formulas of
\* air_functions.py written out in one body, with the three constants fixed
AirPy_air_properties(temp, hum, atm) ==
    air_properties(temp, hum, atm, Dec(26, 3), AIR_CONST, WATER_CONST)

Derived ==
    {"soundSpeed", "density", "impedance", "viscosity", "specHeatRatio",
     "prandtl", "specHeatCP", "specHeatCV"}
Base == {"temp", "hum", "atm"}

\* an object none of whose attributes is assigned yet
NewAirProperties == [a \in Base \cup Derived |-> None]

Number(type, m, e) == [type |-> type, val |-> Dec(m, e)]

\* the values a caller assigns or constructs with
AirValues ==
    {Number("int", n, 0) : n \in {-1, 20, 60, 101325}}
    \cup {Number("float", 5, 1), Number("bool", 1, 0)}

\* the value is stored before it is checked
Setter_store_first(self, attr, v, lo, hi) ==
    IF v.type \notin {"float", "int"}
    THEN [out |-> Raise("TypeError"), self |-> [self EXCEPT ![attr] = Some(v)]]
    ELSE IF QLess(v.val, lo) \/ QLess(hi, v.val)
    THEN [out |-> Raise("ValueError"), self |-> [self EXCEPT ![attr] = Some(v)]]
    ELSE [out |-> Return(None), self |-> [self EXCEPT ![attr] = Some(v)]]

\* type(v) not in [float, int], then v < lo or v > hi
Setter(self, attr, v, lo, hi) ==
    IF v.type \notin {"float", "int"}
    THEN [out |-> Raise("TypeError"), self |-> self]
    ELSE IF QLess(v.val, lo) \/ QLess(hi, v.val)
    THEN [out |-> Raise("ValueError"), self |-> self]
    ELSE [out |-> Return(None), self |-> [self EXCEPT ![attr] = Some(v)]]

temperature_setter(self, temp) == Setter(self, "temp", temp, Dec(0, 0), Dec(50, 0))

\* hum < 0 or hum > 50
humidity_setter(self, hum) == Setter(self, "hum", hum, Dec(0, 0), Dec(50, 0))

\* atm < 90e3 or atm > 115e3
atmPressure_setter(self, atm) == Setter(self, "atm", atm, Dec(90000, 0), Dec(115000, 0))

\* lines 101-108: props[0..6] are assigned, then
\* self.specHeatCP / self.specHeatRatio
AssignProperties(self, props) ==
    LET seven == [self EXCEPT !.soundSpeed = Some(props.val[1]),
                              !.density = Some(props.val[2]),
                              !.impedance = Some(props.val[3]),
                              !.viscosity = Some(props.val[4]),
                              !.specHeatRatio = Some(props.val[5]),
                              !.prandtl = Some(props.val[6]),
                              !.specHeatCP = Some(props.val[7])]
        cv == QDiv(props.val[7], props.val[5])
    IN  IF props.kind = "raise" THEN [out |-> props, self |-> self]
        ELSE IF cv.kind = "raise" THEN [out |-> cv, self |-> seven]
        ELSE [out |-> Return(None),
              self |-> [seven EXCEPT !.specHeatCV = Some(cv.val)]]

\* the derived properties are left as they are
calculate_properties_noop(self) == [out |-> Return(None), self |-> self]

\* props = air_properties(self.temperature, self.humidity, self.atmPressure),
\* evaluated once
calculate_properties(self) ==
    CHOOSE r \in {AssignProperties(self, props) :
                     props \in {AirPy_air_properties(self.temp[1].val,
                                                     self.hum[1].val,
                                                     self.atm[1].val)}} : TRUE

\* __init__(temp, hum, atm): the three setters, then calculate_properties
AirProperties(temp, hum, atm) ==
    LET a == temperature_setter(NewAirProperties, temp)
        b == humidity_setter(a.self, hum)
        c == atmPressure_setter(b.self, atm)
    IN  IF a.out.kind = "raise" THEN a
        ELSE IF b.out.kind = "raise" THEN b
        ELSE IF c.out.kind = "raise" THEN c
        ELSE calculate_properties(c.self)

NoAir == [self |-> NewAirProperties, op |-> "", arg |-> None, out |-> NoCall]

AirStep(op, arg, r) ==
    /\ ap' = [self |-> r.self, op |-> op, arg |-> arg, out |-> r.out]
    /\ UNCHANGED <<disk, io, fn, ret, mat, th>>

AssignTemperature ==
    \E v \in AirValues :
        \E r \in {temperature_setter(ap.self, v)} : AirStep("temperature", Some(v), r)

AssignHumidity ==
    \E v \in AirValues :
        \E r \in {humidity_setter(ap.self, v)} : AirStep("humidity", Some(v), r)

AssignAtmPressure ==
    \E v \in AirValues :
        \E r \in {atmPressure_setter(ap.self, v)} : AirStep("atmPressure", Some(v), r)

CalculateProperties ==
    \E r \in {calculate_properties(ap.self)} :
        AirStep("calculate_properties", None, r)

----------------------------------------------------------------------------
(* Specifications *)

NoDirectCall == [name |-> "", args |-> <<>>, freq |-> None, var |-> "", shape |-> ""]

\* one caller uses the Material object
Init ==
    /\ fn = NoDirectCall
    /\ ret = NoCall
    /\ mat \in Materials
    /\ th = [t \in Callers |-> Idle]
    /\ disk = [n \in FileNames |-> None]
    /\ io = NoIO
    /\ ap = NoAir

Next == Step(1)

Spec == Init /\ [][Next]_vars

\* two callers each make one call on the same, fully set up Material object
\* (its thickness given or not), their steps interleaved
InitConc ==
    /\ Init
    /\ \A a \in Attrs \ {"thickness"} : mat[a] # None
    /\ mat.shape = Some("circle")

NextConc ==
    \E t \in Callers :
        \/ th[t].pc = "idle" /\ Call(t)
        \/ Proceed(t)

SpecConc == InitConc /\ [][NextConc]_vars

\* the module-level functions called directly
InitFn ==
    /\ fn \in DirectCalls \cup ReferenceCalls \cup NumberCalls \cup HelperCalls
              \cup AirCalls \cup KelvinCalls
    /\ ret = NoCall
    /\ mat = CHOOSE m \in Materials : \A a \in Attrs : m[a] # None /\ m.shape = Some("circle")
    /\ th = [t \in Callers |-> Idle]
    /\ disk = [n \in FileNames |-> None]
    /\ io = NoIO
    /\ ap = NoAir

NextFn ==
    \/ CallDelanyBazley
    \/ CallRayleigh
    \/ CallShearWave
    \/ CallBiotAllard
    \/ CallJohnsonChampoux
    \/ CallAbsorptionCoefficient
    \/ CallJohnsonChampouxAbsorption
    \/ CallAirProperties
    \/ CallCeilsiusToKelvin

SpecFn == InitFn /\ [][NextFn]_vars

\* the pickle utilities, called in any order on names that do not exist yet
InitPickle ==
    /\ fn = NoDirectCall
    /\ ret = NoCall
    /\ mat = CHOOSE m \in Materials : \A a \in Attrs : m[a] # None /\ m.shape = Some("circle")
    /\ th = [t \in Callers |-> Idle]
    /\ disk = [n \in FileNames |-> None]
    /\ io = NoIO
    /\ ap = NoAir

NextPickle ==
    \/ save_object_with_pickle
    \/ load_object_with_pickle

SpecPickle == InitPickle /\ [][NextPickle]_vars

\* an AirProperties object any constructor call returned
InitAir ==
    /\ fn = NoDirectCall
    /\ ret = NoCall
    /\ mat = CHOOSE m \in Materials : \A a \in Attrs : m[a] # None /\ m.shape = Some("circle")
    /\ th = [t \in Callers |-> Idle]
    /\ disk = [n \in FileNames |-> None]
    /\ io = NoIO
    /\ \E temp \in AirValues, hum \in AirValues, atm \in AirValues :
           \E r \in {AirProperties(temp, hum, atm)} :
               /\ r.out.kind = "return"
               /\ ap = [self |-> r.self, op |-> "__init__", arg |-> None,
                        out |-> r.out]

NextAir ==
    \/ AssignTemperature
    \/ AssignHumidity
    \/ AssignAtmPressure
    \/ CalculateProperties

SpecAir == InitAir /\ [][NextAir]_vars

----------------------------------------------------------------------------
(* Properties *)

Made == ret # NoCall

Entered(t) == th[t].pc # "idle"

\* C1: johnson_champoux called with a var outside default, allard, lafarge
\* fails with an error and never returns normally.
C1_UnknownVarFails ==
    (fn.name = "johnson_champoux" /\ Made
        /\ fn.var \notin {"default", "allard", "lafarge"})
    => ret.kind = "raise"

\* C2: delany_bazley called with a var outside default, miki,
\* allard-champoux raises ValueError and returns no (zc, kc): no variant's
\* formula is a fallback.
C2_UnknownVarRaises ==
    (fn.name = "delany_bazley" /\ Made
        /\ fn.var \notin {"default", "miki", "allard-champoux"})
    => ret = Raise("ValueError")

C2_Witness ==
    /\ fn.name = "delany_bazley"
    /\ fn.var = "bogus"
    /\ ret = Raise("ValueError")

\* C3: whenever estimate_absorption raises, the held impedance, wave number
\* and absorption are what they were when the call was entered.
C3_FailsAtomically ==
    \A t \in Callers : th[t].pc = "raised" => Held(mat) = th[t].before

\* C4: with two calls on the same Material, of different methods or
\* variants, interleaved in any order of their steps, each call returns the
\* absorption computed from the (zc, kc) of its own method and variant.
C4_ReturnsOwnAbsorption ==
    \A t \in Callers :
        (/\ th[t].pc = "returned"
         /\ \E u \in Callers \ {t} :
                /\ Entered(u)
                /\ <<th[u].method, th[u].var>> # <<th[t].method, th[t].var>>)
        =>
            th[t].result =
                Return(Some(absorption_coefficient(
                                th[t].zc[1], th[t].kc[1], mat.thickness,
                                Air.impedance).val))

\* the parameters the claim lists for each method
C5_Required(M) ==
    CASE M \in {"DB", "DELANY-BAZLEY"} -> {"flow_resistivity"}
      [] M \in {"R", "RAY", "RAYLEIGH"} -> {"flow_resistivity", "porosity"}
      [] M \in {"BA", "BIOT-ALLARD"} ->
            {"flow_resistivity", "porosity", "tortuosity", "shape"}
      [] M \in {"JC", "JOHNSON-CHAMPOUX"} ->
            {"flow_resistivity", "porosity", "thermal_length", "tortuosity",
             "viscosity_length"}
      [] OTHER -> {}

C5_Known ==
    {"DB", "DELANY-BAZLEY", "R", "RAY", "RAYLEIGH", "BA", "BIOT-ALLARD",
     "JC", "JOHNSON-CHAMPOUX"}

\* C5: estimate_absorption raises ValueError when the method name is unknown
\* and when a parameter the chosen method requires is None.
C5_IncompleteRaisesValueError ==
    \A t \in Callers :
        (/\ Entered(t)
         /\ \/ upper(th[t].method) \notin C5_Known
            \/ \E a \in C5_Required(upper(th[t].method)) : mat[a] = None)
        => (th[t].pc = "raised" /\ th[t].result = Raise("ValueError"))

C5_Witness ==
    /\ th[1].method = "jc"
    /\ mat.viscosity_length = None
    /\ th[1].pc = "raised"
    /\ th[1].result = Raise("ValueError")

\* C6: estimate_absorption with Johnson-Champoux, var lafarge, on a material
\* whose thermal permeability is None raises an error; it does not evaluate
\* the model with thermal permeability 0 and return an absorption array.
C6_LafargeWithoutPermeabilityRaises ==
    \A t \in Callers :
        (/\ Entered(t)
         /\ upper(th[t].method) \in {"JC", "JOHNSON-CHAMPOUX"}
         /\ th[t].var = "lafarge"
         /\ mat.thermal_permeability = None)
        => th[t].result.kind # "return"

\* C7: johnson_champoux with var allard or lafarge and Cp = 0 fails with an
\* error; it does not return (zc, kc) arrays.
C7_ZeroCpFails ==
    (fn.name = "johnson_champoux" /\ Made
        /\ fn.var \in {"allard", "lafarge"}
        /\ fn.args.Cp = 0)
    => ret.kind = "raise"

\* C8: johnson_champoux with var lafarge and therm_perm = 0 fails with an
\* error; it does not divide by zero and return arrays.
C8_ZeroPermeabilityFails ==
    (fn.name = "johnson_champoux" /\ Made
        /\ fn.var = "lafarge"
        /\ fn.args.therm_perm = 0)
    => ret.kind = "raise"

\* the shape names as documented (Material docstring and metadata, and the
\* specification's table), with their factors in hundredths
DocumentedShapes ==
    [s \in {"circle", "square", "equilateral triangular", "retangular",
            "equilateral-triangle", "rectangular"} |->
        CASE s = "circle" -> 100
          [] s = "square" -> 107
          [] s \in {"equilateral triangular", "equilateral-triangle"} -> 111
          [] s \in {"retangular", "rectangular"} -> 81]

\* C9: a documented pore shape name passed to shear_wave (with a non-zero
\* divisor) selects the factor 1, 1.07, 1.11 or 0.81 and produces a result.
C9_DocumentedShapeSelectsFactor ==
    (fn.name = "shear_wave" /\ Made
        /\ fn.shape \in DOMAIN DocumentedShapes
        /\ fn.args.flow_resis * fn.args.poros # 0)
    => (ret.kind = "return" /\ ret.val.c1 = DocumentedShapes[fn.shape])

\* C10: shear_wave and biot_allard called with a pore shape that is not a
\* key of the shape-factor table raise KeyError and return nothing: no
\* default factor is substituted.
C10_UnknownShapeRaises ==
    (fn.name \in {"shear_wave", "biot_allard"} /\ Made
        /\ fn.shape \notin {"circle", "square", "equi-tri", "retang"})
    => ret = Raise("KeyError")

C10_Witness ==
    /\ fn.name = "biot_allard"
    /\ fn.shape = "triangle"
    /\ ret = Raise("KeyError")

\* C11: when estimate_absorption returns from a Biot-Allard or
\* Johnson-Champoux evaluation, the impedance handed to the transform has
\* been divided by the porosity exactly once, and for Biot-Allard the result
\* is what biot_allard_absorption gives for the evaluator's (zc, kc).
C11_ImpedanceDividedOnce ==
    \A t \in Callers :
        (/\ th[t].pc = "returned"
         /\ upper(th[t].method) \in {"BA", "BIOT-ALLARD", "JC", "JOHNSON-CHAMPOUX"})
        =>
            /\ PorosityDivisions(th[t].arg_zc[1]) = 1
            /\ upper(th[t].method) \in {"BA", "BIOT-ALLARD"} =>
                    th[t].result =
                        Return(Some(biot_allard_absorption(
                                        th[t].zc[1], th[t].kc[1], mat.thickness,
                                        Air.impedance, mat.porosity[1]).val))

\* C12: load_object_with_pickle(name), called after
\* save_object_with_pickle(name, obj) with the same '.pkl' name, returns an
\* object equal to obj.
C12_LoadReturnsSaved ==
    (/\ io.op = "load"
     /\ endswith(io.file_name, ".pkl")
     /\ io.saved[io.file_name] # None)
    => io.out = Return(io.saved[io.file_name][1])

\* C13: after a successful estimate_absorption call the held frequencies,
\* impedance and wave number are the outputs of that call's evaluation, and
\* the held absorption is the transform of exactly the held impedance and
\* wave number with the material's thickness and air impedance: nothing of
\* an earlier call remains held.
C13_HoldsOneCall ==
    \A t \in Callers :
        th[t].pc = "returned" =>
            LET o == Evaluate(mat, th[t].frequencies[1], th[t].method, th[t].var)
            IN  /\ o.kind = "return"
                /\ mat.frequencies = th[t].frequencies
                /\ mat.impedance = Some(o.val[1])
                /\ mat.wave_number = Some(o.val[2])
                /\ mat.absorption =
                        Some(absorption_coefficient(
                                mat.impedance[1], mat.wave_number[1],
                                mat.thickness, Air.impedance).val)
                /\ th[t].result = Return(mat.absorption)

\* a call has returned on a material that held another call's values
C13_Witness ==
    /\ th[1].pc = "returned"
    /\ th[1].before[1] # None
    /\ th[1].before[3] # None
    /\ th[1].before[1] # mat.impedance
    /\ th[1].before[3] # mat.absorption

\* the four model evaluators
Evaluators == {"delany_bazley", "rayleigh", "biot_allard", "johnson_champoux"}

\* C14: every model evaluator called with a sweep that contains a frequency
\* that is zero or negative fails with an error; it does not return arrays.
C14_NonPositiveFrequencyFails ==
    (/\ fn.name \in Evaluators /\ Made
     /\ \E i \in DOMAIN fn.freq.vals : fn.freq.vals[i] <= 0)
    => ret.kind = "raise"

\* C15: for every evaluator and recognised variant called on an ndarray
\* sweep, the returned zc and kc each have as many elements as the sweep, and
\* element i is the element the same call gives on the one-element sweep of
\* frequency i: it depends on that frequency and the scalar parameters only.
C15_ElementwiseSameLength ==
    (/\ fn.name \in Evaluators /\ Made
     /\ fn.freq.ndarray
     /\ ret.kind = "return" /\ ret.val # None)
    =>
        \A q \in 1..2 :
            /\ Len(ret.val[q].elems) = Len(fn.freq.vals)
            /\ \A i \in DOMAIN fn.freq.vals :
                    LET alone == [ndarray |-> TRUE, vals |-> <<fn.freq.vals[i]>>]
                        one == Outcome([fn EXCEPT !.freq = alone])
                    IN  /\ one.kind = "return"
                        /\ ret.val[q].elems[i] = one.val[q].elems[1]

\* a two-element sweep whose elements came out differently
C15_Witness ==
    /\ fn.name = "johnson_champoux"
    /\ fn.var = "lafarge"
    /\ fn.freq = [ndarray |-> TRUE, vals |-> <<0, 100>>]
    /\ ret.kind = "return"
    /\ ret.val[1].elems = <<"div0", "num">>
    /\ ret.val[2].elems = <<"div0", "num">>

\* absorption_coefficient was called on numbers
MadeNumber == fn.name = "absorption_coefficient" /\ Made

\* Re(zs) >= 0 for the call's zc and tangent (the common divisor is positive)
PassiveSurface == zs(fn.args.zc, fn.args.t)[1] >= 0

\* C16 as stated: for every (zc, kc, thickness, airImpedance > 0) the
\* returned alpha is a real value with 0 <= alpha <= 1.
C16_AbsorptionInUnitInterval ==
    (MadeNumber /\ fn.args.z_air > 0)
    => (/\ ret.val.what = "real"
        /\ 0 <= ret.val.num
        /\ ret.val.num <= ret.val.den)

\* C16 amended: for airImpedance > 0, wherever the quotients are defined,
\* alpha is real and alpha <= 1, and alpha >= 0 exactly when Re(zs) >= 0.
C16_AtMostOneAndSignOfSurface ==
    (MadeNumber /\ fn.args.z_air > 0 /\ ret.val.what = "real")
    => (/\ ret.val.den > 0
        /\ ret.val.num <= ret.val.den
        /\ (ret.val.num >= 0) <=> PassiveSurface)

\* a surface impedance with negative real part gave a negative alpha
C16_Witness ==
    /\ MadeNumber
    /\ fn.args.z_air > 0
    /\ ret.val.what = "real"
    /\ ~PassiveSurface
    /\ ret.val.num < 0

\* zc, kc * thickness and airImpedance all have zero imaginary part
RealInputs == fn.args.zc[2] = 0 /\ fn.args.t[2] = 0

\* zs = airImpedance for the call's zc and tangent
SurfaceMatchesAir ==
    /\ fn.args.t # <<0, 0>>
    /\ LET s == zs(fn.args.zc, fn.args.t)
       IN  s[1] = fn.args.z_air * s[3] /\ s[2] = 0

\* C17 as stated: for zc, kc, thickness, airImpedance with zero imaginary
\* parts and zs = airImpedance, the returned alpha is exactly 0.
C17_RealInputsMatchedSurfaceGiveZero ==
    (MadeNumber /\ RealInputs /\ SurfaceMatchesAir)
    => (ret.val.what = "real" /\ ret.val.num = 0)

\* C17 amended: absorption_coefficient is real-valued and, for zc, kc,
\* thickness, airImpedance with zero imaginary parts, tan(kc * thickness) # 0
\* and zc, airImpedance not both 0, the returned alpha is exactly 0.
C17_RealInputsGiveZero ==
    (/\ MadeNumber /\ RealInputs
     /\ fn.args.t # <<0, 0>>
     /\ ~(fn.args.zc = <<0, 0>> /\ fn.args.z_air = 0))
    => (ret.val.what = "real" /\ ret.val.num = 0 /\ ret.val.den > 0)

C17_Witness ==
    /\ MadeNumber
    /\ fn.args.zc = <<2, 0>>
    /\ fn.args.t = <<1, 0>>
    /\ fn.args.z_air = 1
    /\ ret.val = Real(0, 25)

\* C18 as stated: for zc = airImpedance and kc * thickness away from a
\* singularity of tan, the reflection coefficient is 0 and alpha is 1.
C18_ImpedanceEqualAirGivesOne ==
    (/\ MadeNumber
     /\ fn.args.zc = <<fn.args.z_air, 0>>
     /\ fn.args.t # <<0, 0>>)
    => (/\ vp(zs(fn.args.zc, fn.args.t), fn.args.z_air)[1] = 0
        /\ vp(zs(fn.args.zc, fn.args.t), fn.args.z_air)[2] = 0
        /\ ret.val.what = "real"
        /\ ret.val.num = ret.val.den)

\* C18 amended: for zs = airImpedance > 0 the reflection coefficient is 0
\* and alpha is 1.
C18_SurfaceEqualAirGivesOne ==
    (MadeNumber /\ SurfaceMatchesAir /\ fn.args.z_air > 0)
    => (/\ vp(zs(fn.args.zc, fn.args.t), fn.args.z_air)[1] = 0
        /\ vp(zs(fn.args.zc, fn.args.t), fn.args.z_air)[2] = 0
        /\ vp(zs(fn.args.zc, fn.args.t), fn.args.z_air)[3] > 0
        /\ ret.val.what = "real"
        /\ ret.val.num = ret.val.den)

\* zc = j * airImpedance * tan(kc * thickness): zs = airImpedance
C18_Witness ==
    /\ MadeNumber
    /\ fn.args.zc = <<-2, 1>>
    /\ fn.args.t = <<1, 2>>
    /\ fn.args.z_air = 1
    /\ SurfaceMatchesAir
    /\ ret.val.what = "real"
    /\ ret.val.num = ret.val.den

\* delany_bazley, var default, was called at 1000 Hz with air density 1.2
\* and sound speed 343
AtReference ==
    /\ fn.name = "delany_bazley" /\ Made
    /\ fn.var = "default"
    /\ fn.freq = [ndarray |-> TRUE, vals |-> <<1000>>]
    /\ fn.args.air_dens = 12 /\ fn.args.sound_spd = 343

\* C19 as stated: at f = 1000 Hz, flowResistivity = 1000, airDensity = 1.2,
\* soundSpeed = 343 the default variant's normalised resistance
\* R = Re(zc) / (soundSpeed * airDensity) is 1 + 9.08 * 1 ** -0.75 = 10.08.
C19_ReferenceResistance ==
    (AtReference /\ fn.args.flow_resis = 1000)
    => (ret.kind = "return" /\ ret.val[1].R[1] = Real(100800, 10000))

\* C19 amended: at that point the independent variable 1000*f/flowResistivity
\* is 1000, so R = 1 + 9.08 * 1000 ** -0.75; it is 1 and R = 10.08 at
\* flowResistivity = 1000000 for the same frequency.
C19_ReferenceVariable ==
    AtReference
    => /\ ret.kind = "return"
       /\ fn.args.flow_resis = 1000 =>
            /\ ret.val[1].R[1].what = "power"
            /\ ret.val[1].R[1].coef = 90800 /\ ret.val[1].R[1].exp = -750
            /\ ret.val[1].R[1].base[1] = 1000 * ret.val[1].R[1].base[2]
       /\ fn.args.flow_resis = 1000000 =>
            ret.val[1].R[1] = Real(100800, 10000)

C19_Witness ==
    /\ AtReference
    /\ fn.args.flow_resis = 1000
    /\ ret.kind = "return"
    /\ ret.val[1].R[1].base = <<1000000, 1000>>

\* the air density air_properties computes for the call's arguments
C20_Density ==
    air_density(ceilsius_to_kelvin(fn.args.t), fn.args.humidity,
                fn.args.atmospheric_pressure,
                pierce(ceilsius_to_kelvin(fn.args.t)),
                fn.args.air_constant, fn.args.water_constant)

C21_ValidAirState ==
    /\ fn.name = "air_properties" /\ Made
    /\ ~QLess(ceilsius_to_kelvin(fn.args.t), Dec(260, 0))
    /\ ~QLess(Dec(600, 0), ceilsius_to_kelvin(fn.args.t))
    /\ QSign(fn.args.humidity) >= 0
    /\ ~QLess(Dec(100, 0), fn.args.humidity)
    /\ QSign(fn.args.atmospheric_pressure) > 0
    /\ fn.args.kappa = Dec(26, 3)
    /\ fn.args.air_constant = AIR_CONST
    /\ fn.args.water_constant = WATER_CONST

\* C21: for every air state in the documented domain air_properties returns
\* a density > 0 and a sound speed that is a real, positive number.
C21_PositiveDensityRealSpeed ==
    C21_ValidAirState
    => /\ ret.kind = "return"
       /\ QSign(ret.val[2]) > 0
       /\ ret.val[1].qty = "sqrt"
       /\ QSign(ret.val[1].of) > 0

\* the specific-heat ratio Cp / (Cp - air_constant) for the call's arguments
C28_SuppliedRatio ==
    LET Cp == specific_heat_constant_pressure(ceilsius_to_kelvin(fn.args.t))
    IN  specific_heat_ratio(Cp, specific_heat_constant_volume(Cp, fn.args.air_constant))

\* C28: air_properties uses the air_constant the caller supplied in every
\* formula with the air gas constant: the specific-heat ratio it returns
\* is Cp / (Cp - air_constant) for the same air_constant as the density.
C28_SuppliedAirConstantEverywhere ==
    (fn.name = "air_properties" /\ Made /\ ret.kind = "return")
    => /\ C28_SuppliedRatio.kind = "return"
       /\ QSign(QSub(ret.val[5], C28_SuppliedRatio.val)) = 0
       /\ Return(ret.val[2]) = C20_Density

Assignments == {"temperature", "humidity", "atmPressure"}

\* C22: the humidity setter accepts every int or float h with 0 <= h <= 100
\* and raises ValueError exactly for the numeric h outside that range.
C22_HumidityUpTo100 ==
    (ap.op = "humidity" /\ ap.arg[1].type \in {"int", "float"})
    => IF QSign(ap.arg[1].val) >= 0 /\ ~QLess(Dec(100, 0), ap.arg[1].val)
       THEN ap.out = Return(None) /\ ap.self.hum = ap.arg
       ELSE ap.out = Raise("ValueError")

\* air_properties of the three base values the object holds
C23_Properties ==
    {AirPy_air_properties(ap.self.temp[1].val, ap.self.hum[1].val, ap.self.atm[1].val)}

\* the derived properties are those of the base values the object holds
C23_UpToDate ==
    \A props \in C23_Properties :
        /\ props.kind = "return"
        /\ <<ap.self.soundSpeed, ap.self.density, ap.self.impedance,
             ap.self.viscosity, ap.self.specHeatRatio, ap.self.prandtl,
             ap.self.specHeatCP>>
           = [i \in 1..7 |-> Some(props.val[i])]
        /\ \A Cp \in {props.val[7]} :
               QSign(QSub(ap.self.specHeatCV[1], QSub(Cp, AIR_CONST))) = 0

\* C23: assigning temperature, humidity or atmPressure changes at most that
\* base value and leaves every derived property as it was; after
\* calculate_properties the derived properties are air_properties of the
\* three base values, which it leaves as they were.
C23_DerivedChangeOnlyOnCalculate ==
    /\ [][/\ (ap'.op \in Assignments)
             => (/\ \A d \in Derived : ap'.self[d] = ap.self[d]
                 /\ ap'.op # "temperature" => ap'.self.temp = ap.self.temp
                 /\ ap'.op # "humidity" => ap'.self.hum = ap.self.hum
                 /\ ap'.op # "atmPressure" => ap'.self.atm = ap.self.atm
                 /\ (ap'.out.kind = "return")
                    => (\A b \in Base : ap'.self[b] \in {ap.self[b], ap'.arg}))
          /\ (ap'.op = "calculate_properties")
             => (\A b \in Base : ap'.self[b] = ap.self[b])]_vars
    /\ [](ap.op = "calculate_properties" => C23_UpToDate)

\* a base value was assigned and the derived properties are still those of
\* the base values before
C23_Witness ==
    /\ ap.op \in Assignments /\ ap.out = Return(None)
    /\ \E props \in C23_Properties : ap.self.density # Some(props.val[2])

\* calculate_properties has returned and the derived properties are those
\* of the base values held
C23_WitnessCalculated ==
    ap.op = "calculate_properties" /\ ap.out = Return(None) /\ C23_UpToDate

\* C30: an assignment to temperature, humidity or atmPressure that is
\* rejected, with TypeError for a value that is no int or float and with
\* ValueError for one out of range, leaves the stored base value and every
\* derived property as they were.
C30_RejectedAssignmentChangesNothing ==
    [][(ap'.op \in Assignments /\ ap'.out.kind = "raise")
       => /\ ap'.self = ap.self
          /\ ap'.out.exc = IF ap'.arg[1].type \in {"int", "float"}
                           THEN "ValueError" ELSE "TypeError"]_vars

\* an assignment of either kind was rejected
C30_Witness ==
    /\ ap.op \in Assignments
    /\ ap.out \in {Raise("TypeError"), Raise("ValueError")}
    /\ ap.self[IF ap.op = "temperature" THEN "temp"
                ELSE IF ap.op = "humidity" THEN "hum" ELSE "atm"] # ap.arg

\* C24: load_object_with_pickle never changes a file: after any call,
\* returned or failed, every file exists or not as before and holds the
\* bytes it held before.
C24_LoadLeavesFiles ==
    [][io'.op = "load" => disk' = disk]_vars

\* C25: save_object_with_pickle and load_object_with_pickle called with a
\* file name that does not end in '.pkl' raise ValueError and open no file:
\* every file exists or not as before and holds the bytes it held before.
C25_WrongExtensionOpensNothing ==
    [][(io'.op \in {"save", "load"} /\ ~endswith(io'.file_name, ".pkl"))
       => /\ io'.out = Raise("ValueError")
          /\ io'.opened = <<>>
          /\ disk' = disk
          /\ io'.saved = io.saved]_vars

\* a name without '.pkl' was rejected while another file was on the disk
C25_Witness ==
    /\ io.op \in {"save", "load"} /\ ~endswith(io.file_name, ".pkl")
    /\ io.out = Raise("ValueError")
    /\ \E n \in FileNames : disk[n] # None /\ disk[n] # Some(EmptyBytes)

\* C26: a call of estimate_absorption that ends with the ValueError for an
\* unknown method or for an undefined required parameter has invoked no
\* evaluator and no absorption transform; a call that returns has invoked
\* exactly one evaluator and, after it, exactly one absorption transform.
C26_ValidatesBeforeEvaluating ==
    \A t \in Callers :
        /\ (/\ th[t].pc = "raised"
            /\ th[t].result = Raise("ValueError")
            /\ \/ upper(th[t].method) \notin C5_Known
               \/ \E a \in C5_Required(upper(th[t].method)) : mat[a] = None)
           => th[t].calls = <<>>
        /\ th[t].pc = "returned"
           => \E e \in Evaluators : th[t].calls = <<e, "absorption_coefficient">>

\* a call with an undefined parameter was rejected on a material that holds
\* the absorption of an earlier call
C26_Witness ==
    /\ th[1].pc = "raised" /\ th[1].result = Raise("ValueError")
    /\ \E a \in C5_Required(upper(th[1].method)) : mat[a] = None
    /\ th[1].calls = <<>>
    /\ mat.absorption # None

\* a call has returned after one evaluator and one transform
C26_WitnessReturned ==
    /\ th[1].pc = "returned"
    /\ th[1].calls = <<"johnson_champoux", "absorption_coefficient">>

\* zc / poros of the call, the porosity being 1.0 or 0.5
C27_Scaled == <<(2 * fn.args.zc[1]) \div fn.args.poros, (2 * fn.args.zc[2]) \div fn.args.poros>>

\* C27: johnson_champoux_absorption(zc, kc, d, z_air, poros) returns the
\* absorption that absorption_coefficient(zc / poros, kc, d, z_air) returns,
\* for every input.
C27_HelperEqualsTransform ==
    (fn.name = "johnson_champoux_absorption" /\ Made)
    => \A shared \in {absorption(C27_Scaled, fn.args.t, fn.args.z_air)} :
          /\ ret.val.what = shared.what
          /\ ret.val.num * shared.den = shared.num * ret.val.den

\* C29: no call of a core operation changes an argument object the caller
\* passed, and ceilsius_to_kelvin called twice with the same object returns
\* equal values.
C29_ArgumentsUnmodified ==
    /\ [][fn' = fn]_vars
    /\ []((fn.name = "ceilsius_to_kelvin" /\ Made /\ Len(ret.val) = 2)
          => QSign(QSub(ret.val[1], ret.val[2])) = 0)

====
